---- MODULE Spec2Model ----
(***************************************************************************)
(* Crop / interest consistency of the krishi-link server.                  *)
(*                                                                         *)
(* The repository holds two builds of the same Express server:             *)
(*   src/index.js          (multer build)       -> server = "index"        *)
(*   src/unnamed/part_000  (serverless build)   -> server = "part_000"     *)
(* Both keep every interest twice: a canonical document in the collection  *)
(* `interests` and a summary embedded in the `interests` array of the crop *)
(* document in `allcrops`.  Every `await` on a collection call is one      *)
(* atomic step of a handler; handlers of different requests interleave at  *)
(* these steps.                                                            *)
(***************************************************************************)
EXTENDS Integers, Sequences, FiniteSets, TLC

(* ------------------------------ bounds --------------------------------- *)
\* number of requests that can be in flight at the same time
MaxHandlers == 2
\* number of ObjectIds `new ObjectId()` can hand out in one behaviour
MaxInterests == 2
\* the quantity the crop is listed with, and the largest a buyer asks for
MaxQuantity == 2
\* number of collection calls that reject in one behaviour
MaxThrows == 1
\* number of requests that arrive in one behaviour
MaxRequests == 3

Handlers == 1..MaxHandlers
InterestIds == 1..MaxInterests
\* quantities a buyer may send; 0 is the one below the minimum of 1
Quantities == 0..(MaxQuantity + 1)

Seller == "seller"
Buyers == {"buyerA", "buyerB"}
Emails == {Seller} \cup Buyers
\* who sends a PATCH or a DELETE of a crop: the owner or somebody else
Callers == {Seller, "buyerA"}
CropIds == {"c1"}
Statuses == {"pending", "accepted", "rejected"}
\* status values a PATCH body carries; "sold" stands for any other string
BodyStatuses == Statuses \cup {"sold"}

VARIABLES
  server,     \* which build is running
  crops,      \* collection allcrops: crop id -> crop document
  interests,  \* collection interests: interest id -> canonical document
  nextId,     \* next ObjectId that `new ObjectId()` returns
  throws,     \* collection calls that have rejected so far
  requests,   \* requests that have arrived so far
  h           \* handler -> request in flight: position, arguments, locals

vars == <<server, crops, interests, nextId, throws, requests, h>>

(* ----------------------------- documents ------------------------------- *)
NoCrop == [exists |-> FALSE, userEmail |-> "", quantity |-> 0, interests |-> <<>>]
NoInterest == [exists |-> FALSE, cropId |-> "", sellerEmail |-> "",
               buyerEmail |-> "", quantity |-> 0, status |-> ""]

\* op, pc: route and position; cropId, email, qty, status, id: the request
\* (id is also the ObjectId a creation generates); seller: crop.userEmail as
\* read by POST /interest; cropQty: crop.quantity as read by PATCH; docCrop,
\* docQty: existingInterest.cropId and .quantity as read by PATCH; res: the
\* HTTP status answered; qty0: the crop's quantity when the PATCH arrived
IdleHandler ==
  [op |-> "none", pc |-> "idle", cropId |-> "", email |-> "", qty |-> 0,
   status |-> "", id |-> 0, seller |-> "", cropQty |-> 0, docCrop |-> "",
   docQty |-> 0, res |-> 0, qty0 |-> 0]

Max(a, b) == IF a >= b THEN a ELSE b

Running(p) == h[p].pc \notin {"idle", "done"}

\* an arriving request is served by the first handler that is not busy
Free(p) == ~Running(p) /\ \A q \in 1..(p - 1) : Running(q)

\* res.status(code).send(...) / res.send(...): the handler returns and its
\* locals go out of scope; what stays visible is the route, the interest id
\* and status the request was about, and the answer
Respond(p, code) ==
  [IdleHandler EXCEPT !.op = h[p].op, !.pc = "done", !.res = code, !.id = h[p].id,
     !.status = h[p].status, !.qty0 = h[p].qty0]

\* quantity of the crop of interest i, 0 when either is gone
QtyNow(i) ==
  IF interests[i].exists /\ crops[interests[i].cropId].exists
  THEN crops[interests[i].cropId].quantity ELSE 0

(* ------------------------------- Init ---------------------------------- *)
\* the crop as POST /allcrops lists it: interests: [], quantity: MaxQuantity
ListedCrop ==
  [exists |-> TRUE, userEmail |-> Seller, quantity |-> MaxQuantity, interests |-> <<>>]

\* the interest an earlier POST /interest of buyerB for the whole stock has
\* written
EarlierSummary ==
  [id |-> 1, email |-> "buyerB", quantity |-> MaxQuantity, status |-> "pending"]
EarlierInterest ==
  [exists |-> TRUE, cropId |-> "c1", sellerEmail |-> Seller, buyerEmail |-> "buyerB",
   quantity |-> MaxQuantity, status |-> "pending"]

\* the database the server connects to: the listed crop, without interests
\* yet or with the one earlier interest on it
Init ==
  /\ server \in {"index", "part_000"}
  /\ \/ /\ crops = [c \in CropIds |-> ListedCrop]
        /\ interests = [i \in InterestIds |-> NoInterest]
        /\ nextId = 1
     \/ /\ crops = [c \in CropIds |->
                      [ListedCrop EXCEPT !.interests = <<EarlierSummary>>]]
        /\ interests = [i \in InterestIds |->
                          IF i = 1 THEN EarlierInterest ELSE NoInterest]
        /\ nextId = 2
  /\ throws = 0
  /\ requests = 0
  /\ h = [p \in Handlers |-> IdleHandler]

\* one more request arrives
Arrive == requests < MaxRequests /\ requests' = requests + 1

(* --------------------------- POST /interest ---------------------------- *)
\* ids still to be generated by creations that are before their checks
PendingCreates == Cardinality({p \in Handlers : h[p].pc = "create_findCrop"})

\* the request arrives; index.js validates the quantity before its first await
CreateInterest(p, cropId, userEmail, quantity) ==
  /\ Free(p)
  /\ nextId + PendingCreates <= MaxInterests
  /\ LET req == [IdleHandler EXCEPT !.op = "create", !.cropId = cropId,
                   !.email = userEmail, !.qty = quantity]
     IN h' = [h EXCEPT ![p] =
                IF server = "index" /\ quantity < 1
                THEN [IdleHandler EXCEPT !.op = "create", !.pc = "done", !.res = 400]
                ELSE [req EXCEPT !.pc = "create_findCrop"]]
  /\ Arrive
  /\ UNCHANGED <<server, crops, interests, nextId, throws>>

\* Already that looks at the pending summaries only
AlreadyPending(c, userEmail) ==
  \E k \in 1..Len(c.interests) :
    c.interests[k].email = userEmail /\ c.interests[k].status = "pending"

\* crop.interests?.some((i) => i.userEmail === userEmail)
Already(c, userEmail) ==
  \E k \in 1..Len(c.interests) : c.interests[k].email = userEmail

\* CreateCheck without the comparison of crop.userEmail with userEmail
CreateCheckNoOwner(c, userEmail, quantity) ==
  IF ~c.exists THEN 404
  ELSE IF server = "index" /\ quantity > c.quantity THEN 400
  ELSE IF server = "index" /\ Already(c, userEmail) THEN 400
  ELSE IF server = "part_000" /\ quantity < 1 THEN 400
  ELSE 0

\* the checks between findOne(crop) and the first write; 0 = all passed
CreateCheck(c, userEmail, quantity) ==
  IF ~c.exists THEN 404
  ELSE IF c.userEmail = userEmail THEN 403
  ELSE IF server = "index" /\ quantity > c.quantity THEN 400
  ELSE IF server = "index" /\ Already(c, userEmail) THEN 400
  ELSE IF server = "part_000" /\ quantity < 1 THEN 400
  ELSE 0

\* crop = await cropsCollection.findOne({_id}); the checks; new ObjectId()
CreateFindCrop(p) ==
  /\ h[p].pc = "create_findCrop"
  /\ LET c == crops[h[p].cropId]
         code == CreateCheck(c, h[p].email, h[p].qty)
     IN IF code # 0
        THEN /\ h' = [h EXCEPT ![p] = Respond(p, code)]
             /\ UNCHANGED nextId
        ELSE /\ h' = [h EXCEPT ![p] = [h[p] EXCEPT !.pc = "create_push",
                                         !.seller = c.userEmail, !.id = nextId]]
             /\ nextId' = nextId + 1
  /\ UNCHANGED <<server, crops, interests, throws, requests>>

\* the summary embedded in the crop
Summary(p) ==
  [id |-> h[p].id, email |-> h[p].email, quantity |-> h[p].qty, status |-> "pending"]

\* CreatePushSummary that takes the requested quantity off the crop's
CreatePushSummaryReserve(p) ==
  /\ h[p].pc = "create_push"
  /\ LET c == h[p].cropId
     IN crops' = IF crops[c].exists
                 THEN [crops EXCEPT ![c].interests = Append(@, Summary(p)),
                                    ![c].quantity = Max(0, @ - h[p].qty)]
                 ELSE crops
  /\ h' = [h EXCEPT ![p].pc = "create_insert"]
  /\ UNCHANGED <<server, interests, nextId, throws, requests>>

\* cropsCollection.updateOne({_id}, {$push: {interests: newInterest}})
CreatePushSummary(p) ==
  /\ h[p].pc = "create_push"
  /\ LET c == h[p].cropId
     IN crops' = IF crops[c].exists
                 THEN [crops EXCEPT ![c].interests = Append(@, Summary(p))]
                 ELSE crops
  /\ h' = [h EXCEPT ![p].pc = "create_insert"]
  /\ UNCHANGED <<server, interests, nextId, throws, requests>>

\* the canonical document
Canonical(p) ==
  [exists |-> TRUE, cropId |-> h[p].cropId, sellerEmail |-> h[p].seller,
   buyerEmail |-> h[p].email, quantity |-> h[p].qty, status |-> "pending"]

\* interestCollection.insertOne({...}); res.send({success: true})
CreateInsertInterest(p) ==
  /\ h[p].pc = "create_insert"
  /\ interests' = [interests EXCEPT ![h[p].id] = Canonical(p)]
  /\ h' = [h EXCEPT ![p] = Respond(p, 200)]
  /\ UNCHANGED <<server, crops, nextId, throws, requests>>

(* ------------------------- PATCH /interests/:id ------------------------- *)
\* the request arrives for an id the server has handed out; caller is who
\* sent it: neither build reads an
\* identity from a PATCH, so it is gone once the handler starts to write;
\* qty0 is the stock an accepting request meets.
\* index.js rejects a status outside the three names before its first await;
\* part_000 has no check and no read before its first write
UpdateInterestStatus(p, id, status, caller) ==
  /\ Free(p)
  /\ LET req == [IdleHandler EXCEPT !.op = "patch", !.id = id, !.status = status]
     IN h' = [h EXCEPT ![p] =
                IF server = "part_000"
                THEN [req EXCEPT !.pc = "patch_updateInterest", !.email = caller,
                                 !.qty0 = IF status = "accepted" THEN QtyNow(id) ELSE 0]
                ELSE IF status \notin Statuses THEN [req EXCEPT !.pc = "done", !.res = 400]
                ELSE [req EXCEPT !.pc = "patch_findInterest", !.email = caller,
                                 !.qty0 = IF status = "accepted" THEN QtyNow(id) ELSE 0]]
  /\ Arrive
  /\ UNCHANGED <<server, crops, interests, nextId, throws>>

\* index.js: existingInterest = await interestCollection.findOne({_id})
PatchFindInterest(p) ==
  /\ h[p].pc = "patch_findInterest"
  /\ LET d == interests[h[p].id]
     IN h' = [h EXCEPT ![p] =
                IF ~d.exists THEN Respond(p, 404)
                ELSE [h[p] EXCEPT !.docCrop = d.cropId, !.docQty = d.quantity,
                                  !.pc = "patch_findCrop"]]
  /\ UNCHANGED <<server, crops, interests, nextId, throws, requests>>

\* PatchFindCrop that answers 400 to an accept of more than the crop has left
PatchFindCropStrict(p) ==
  /\ h[p].pc = "patch_findCrop"
  /\ LET c == crops[h[p].docCrop]
     IN h' = [h EXCEPT ![p] =
                IF ~c.exists THEN Respond(p, 404)
                ELSE IF h[p].status = "accepted" /\ h[p].docQty > c.quantity
                     THEN Respond(p, 400)
                ELSE [h[p] EXCEPT !.cropQty = c.quantity, !.pc = "patch_updateInterest"]]
  /\ UNCHANGED <<server, crops, interests, nextId, throws, requests>>

\* index.js: crop = await cropsCollection.findOne({_id: cropId})
PatchFindCrop(p) ==
  /\ h[p].pc = "patch_findCrop"
  /\ LET c == crops[h[p].docCrop]
     IN h' = [h EXCEPT ![p] =
                IF ~c.exists THEN Respond(p, 404)
                ELSE [h[p] EXCEPT !.cropQty = c.quantity, !.pc = "patch_updateInterest"]]
  /\ UNCHANGED <<server, crops, interests, nextId, throws, requests>>

\* interestCollection.updateOne({_id}, {$set: {status, updatedAt}})
PatchUpdateInterest(p) ==
  /\ h[p].pc = "patch_updateInterest"
  /\ interests' = IF interests[h[p].id].exists
                  THEN [interests EXCEPT ![h[p].id].status = h[p].status]
                  ELSE interests
  /\ h' = [h EXCEPT ![p].pc = "patch_updateSummary", ![p].email = ""]
  /\ UNCHANGED <<server, crops, nextId, throws, requests>>

\* position of the first summary with this id, 0 when there is none
IndexOfSummary(seq, id) ==
  IF \E k \in 1..Len(seq) : seq[k].id = id
  THEN CHOOSE k \in 1..Len(seq) :
         seq[k].id = id /\ \A j \in 1..(k - 1) : seq[j].id # id
  ELSE 0

\* {$set: {"interests.$.status": status}}: the first matching array element
SetSummaryStatus(c, id, status) ==
  LET k == IndexOfSummary(c.interests, id)
  IN IF c.exists /\ k # 0 THEN [c EXCEPT !.interests[k].status = status] ELSE c

\* what follows the summary update: index.js lowers the stock of an accepted
\* interest, part_000 answers
AfterSummary(p) ==
  IF server = "part_000" THEN Respond(p, 200)
  ELSE IF h[p].status = "accepted" /\ h[p].docQty > 0
       THEN [h[p] EXCEPT !.pc = "patch_setQuantity"]
       ELSE [h[p] EXCEPT !.pc = "patch_refind"]

\* index.js: updateOne({_id: cropId, "interests._id": id}, ...)
\* part_000: updateMany({"interests._id": id}, ...)
PatchUpdateSummary(p) ==
  /\ h[p].pc = "patch_updateSummary"
  /\ crops' = [c \in CropIds |->
                 IF server = "part_000" \/ c = h[p].docCrop
                 THEN SetSummaryStatus(crops[c], h[p].id, h[p].status)
                 ELSE crops[c]]
  /\ h' = [h EXCEPT ![p] = AfterSummary(p)]
  /\ UNCHANGED <<server, interests, nextId, throws, requests>>

\* NewQty without Math.max(0, ...)
NewQtyNoFloor(cropQuantity, qtyToReduce) == cropQuantity - qtyToReduce

\* newQty = Math.max(0, Number(crop.quantity || 0) - qtyToReduce)
NewQty(cropQuantity, qtyToReduce) == Max(0, cropQuantity - qtyToReduce)

\* index.js: updateOne({_id: cropId}, {$set: {quantity: newQty}}), where newQty
\* comes from the crop read in PatchFindCrop
PatchSetQuantity(p) ==
  /\ h[p].pc = "patch_setQuantity"
  /\ LET c == h[p].docCrop
     IN crops' = IF crops[c].exists
                 THEN [crops EXCEPT ![c].quantity = NewQty(h[p].cropQty, h[p].docQty)]
                 ELSE crops
  /\ h' = [h EXCEPT ![p].pc = "patch_refind"]
  /\ UNCHANGED <<server, interests, nextId, throws, requests>>

\* index.js: updatedInterest = await findOne({_id}); res.send({success: true})
PatchRefind(p) ==
  /\ h[p].pc = "patch_refind"
  /\ h' = [h EXCEPT ![p] = Respond(p, 200)]
  /\ UNCHANGED <<server, crops, interests, nextId, throws, requests>>

(* ------------------------- DELETE /interest/:id ------------------------- *)
DeleteInterest(p, id, email) ==
  /\ Free(p)
  /\ h' = [h EXCEPT ![p] =
             [IdleHandler EXCEPT !.op = "deleteInterest", !.id = id, !.email = email,
                !.pc = "delete_findInterest"]]
  /\ Arrive
  /\ UNCHANGED <<server, crops, interests, nextId, throws>>

\* DeleteFindInterest without the comparison of doc.buyerEmail with email
DeleteFindInterestNoBuyer(p) ==
  /\ h[p].pc = "delete_findInterest"
  /\ LET d == interests[h[p].id]
     IN h' = [h EXCEPT ![p] =
                IF ~d.exists THEN Respond(p, 404)
                ELSE [h[p] EXCEPT !.pc = "delete_deleteInterest", !.status = d.status]]
  /\ UNCHANGED <<server, crops, interests, nextId, throws, requests>>

\* doc = await findOne({_id}); 404 when absent, 403 when not the buyer; the
\* status of the document read stays in doc
DeleteFindInterest(p) ==
  /\ h[p].pc = "delete_findInterest"
  /\ LET d == interests[h[p].id]
     IN h' = [h EXCEPT ![p] =
                IF ~d.exists THEN Respond(p, 404)
                ELSE IF d.buyerEmail # h[p].email THEN Respond(p, 403)
                ELSE [h[p] EXCEPT !.pc = "delete_deleteInterest", !.status = d.status]]
  /\ UNCHANGED <<server, crops, interests, nextId, throws, requests>>

\* interestCollection.deleteOne({_id})
DeleteDeleteInterest(p) ==
  /\ h[p].pc = "delete_deleteInterest"
  /\ interests' = [interests EXCEPT ![h[p].id] = NoInterest]
  /\ h' = [h EXCEPT ![p].pc = "delete_pull"]
  /\ UNCHANGED <<server, crops, nextId, throws, requests>>

\* PullSummary that takes nothing out of the array
PullSummaryNone(seq, id) == seq

\* {$pull: {interests: {_id}}}: every array element with this id goes
PullSummary(seq, id) == SelectSeq(seq, LAMBDA s : s.id # id)

\* the crop updateOne({"interests._id": id}, ...) picks: the first that matches
FirstCropWith(id) ==
  LET holders == {c \in CropIds : crops[c].exists /\ IndexOfSummary(crops[c].interests, id) # 0}
  IN IF holders = {} THEN {} ELSE {CHOOSE c \in holders : TRUE}

\* DeletePullSummary that gives the quantity of the pulled summary back to the
\* crop
DeletePullSummaryRestore(p) ==
  /\ h[p].pc = "delete_pull"
  /\ crops' = [c \in CropIds |->
                 IF c \in FirstCropWith(h[p].id)
                 THEN [crops[c] EXCEPT
                         !.interests = PullSummary(@, h[p].id),
                         !.quantity = @ + crops[c].interests[
                                            IndexOfSummary(crops[c].interests, h[p].id)].quantity]
                 ELSE crops[c]]
  /\ h' = [h EXCEPT ![p] = Respond(p, 200)]
  /\ UNCHANGED <<server, interests, nextId, throws, requests>>

\* cropsCollection.updateOne({"interests._id": id}, {$pull: ...}); res.send
DeletePullSummary(p) ==
  /\ h[p].pc = "delete_pull"
  /\ crops' = [c \in CropIds |->
                 IF c \in FirstCropWith(h[p].id)
                 THEN [crops[c] EXCEPT !.interests = PullSummary(@, h[p].id)]
                 ELSE crops[c]]
  /\ h' = [h EXCEPT ![p] = Respond(p, 200)]
  /\ UNCHANGED <<server, interests, nextId, throws, requests>>

(* ------------------------- DELETE /allcrops/:id ------------------------- *)
DeleteCrop(p, cropId, email) ==
  /\ Free(p)
  /\ h' = [h EXCEPT ![p] =
             [IdleHandler EXCEPT !.op = "deleteCrop", !.cropId = cropId, !.email = email,
                !.pc = "dropCrop_findCrop"]]
  /\ Arrive
  /\ UNCHANGED <<server, crops, interests, nextId, throws>>

\* DeleteCropFind without the comparison of crop.userEmail with email
DeleteCropFindNoOwner(p) ==
  /\ h[p].pc = "dropCrop_findCrop"
  /\ LET c == crops[h[p].cropId]
     IN h' = [h EXCEPT ![p] =
                IF ~c.exists THEN Respond(p, 404)
                ELSE [h[p] EXCEPT !.pc = "dropCrop_deleteOne"]]
  /\ UNCHANGED <<server, crops, interests, nextId, throws, requests>>

\* crop = await findOne({_id}); 404 when absent, 403 when not the owner
DeleteCropFind(p) ==
  /\ h[p].pc = "dropCrop_findCrop"
  /\ LET c == crops[h[p].cropId]
     IN h' = [h EXCEPT ![p] =
                IF ~c.exists THEN Respond(p, 404)
                ELSE IF c.userEmail # h[p].email THEN Respond(p, 403)
                ELSE [h[p] EXCEPT !.pc = "dropCrop_deleteOne"]]
  /\ UNCHANGED <<server, crops, interests, nextId, throws, requests>>

\* cropsCollection.deleteOne({_id}); index.js answers here
DeleteCropDeleteOne(p) ==
  /\ h[p].pc = "dropCrop_deleteOne"
  /\ crops' = [crops EXCEPT ![h[p].cropId] = NoCrop]
  /\ h' = [h EXCEPT ![p] =
             IF server = "part_000" THEN [h[p] EXCEPT !.pc = "dropCrop_deleteMany"]
             ELSE Respond(p, 200)]
  /\ UNCHANGED <<server, interests, nextId, throws, requests>>

\* part_000: interestCollection.deleteMany({cropId}); res.send
DeleteCropDeleteMany(p) ==
  /\ h[p].pc = "dropCrop_deleteMany"
  /\ interests' = [i \in InterestIds |->
                     IF interests[i].exists /\ interests[i].cropId = h[p].cropId
                     THEN NoInterest ELSE interests[i]]
  /\ h' = [h EXCEPT ![p] = Respond(p, 200)]
  /\ UNCHANGED <<server, crops, nextId, throws, requests>>

(* ------------------------------ failures -------------------------------- *)
\* a collection call rejects: the catch block answers 500 and the handler
\* ends, whatever it had written before
Throw(p) ==
  /\ Running(p)
  /\ throws < MaxThrows
  /\ throws' = throws + 1
  /\ h' = [h EXCEPT ![p] = Respond(p, 500)]
  /\ UNCHANGED <<server, crops, interests, nextId, requests>>

(* ------------------------------- Next ----------------------------------- *)
Next ==
  \E p \in Handlers :
    \/ \E c \in CropIds, e \in Emails, q \in Quantities : CreateInterest(p, c, e, q)
    \/ CreateFindCrop(p)
    \/ CreatePushSummary(p)
    \/ CreateInsertInterest(p)
    \/ \E i \in 1..(nextId - 1), s \in BodyStatuses, e \in Callers : UpdateInterestStatus(p, i, s, e)
    \/ PatchFindInterest(p)
    \/ PatchFindCrop(p)
    \/ PatchUpdateInterest(p)
    \/ PatchUpdateSummary(p)
    \/ PatchSetQuantity(p)
    \/ PatchRefind(p)
    \/ \E i \in 1..(nextId - 1), e \in Emails : DeleteInterest(p, i, e)
    \/ DeleteFindInterest(p)
    \/ DeleteDeleteInterest(p)
    \/ DeletePullSummary(p)
    \/ \E c \in CropIds, e \in Callers : DeleteCrop(p, c, e)
    \/ DeleteCropFind(p)
    \/ DeleteCropDeleteOne(p)
    \/ DeleteCropDeleteMany(p)
    \/ Throw(p)

Spec == Init /\ [][Next]_vars

(* ------------------------------ properties ------------------------------ *)
\* no request is being handled
Quiescent == \A p \in Handlers : ~Running(p)

\* the summaries of interest i embedded in crop document c
SummariesOf(c, i) == {k \in 1..Len(c.interests) : c.interests[k].id = i}

\* handler p has answered 200 to a PATCH that set `accepted`
Accepted(p) ==
  /\ h[p].op = "patch" /\ h[p].pc = "done"
  /\ h[p].res = 200 /\ h[p].status = "accepted"

\* C1: when no request is being handled and no collection call has failed,
\* every canonical interest has exactly one summary with its id in the crop
\* its cropId names, and that summary carries the canonical status.
C1_CanonicalMirrored ==
  (Quiescent /\ throws = 0) =>
    \A i \in InterestIds :
      interests[i].exists =>
        LET c == crops[interests[i].cropId]
        IN /\ c.exists
           /\ Cardinality(SummariesOf(c, i)) = 1
           /\ \A k \in SummariesOf(c, i) : c.interests[k].status = interests[i].status

\* C2: when no request is being handled (also after a request that failed
\* after its first write), every summary embedded in a crop has a canonical
\* interest with the same id and the same status.
C2_NoSummaryWithoutCanonical ==
  Quiescent =>
    \A c \in CropIds : \A k \in 1..Len(crops[c].interests) :
      LET s == crops[c].interests[k]
      IN interests[s.id].exists /\ interests[s.id].status = s.status

\* C3: in every reachable state every crop's quantity is >= 0.
C3_QuantityNonNegative ==
  \A c \in CropIds : crops[c].exists => crops[c].quantity >= 0

\* C3 witness: index.js has just written the stock of an accepted interest
\* that asked for more than the crop it read had left, and the stock is 0.
C3_Witness ==
  \E p \in Handlers :
    /\ h[p].pc = "patch_refind" /\ h[p].status = "accepted"
    /\ h[p].docQty > h[p].cropQty
    /\ crops[h[p].docCrop].exists /\ crops[h[p].docCrop].quantity = 0

\* C4: the status of an interest changes only from pending to accepted or
\* from pending to rejected.
C4_OnlyLegalTransitions ==
  [][\A i \in InterestIds :
       (interests[i].exists /\ interests'[i].exists
          /\ interests'[i].status # interests[i].status)
       => (interests[i].status = "pending"
             /\ interests'[i].status \in {"accepted", "rejected"})]_vars

\* C5: after a PATCH that set `accepted` was answered 200, with no other
\* request handled at the same time (only the first handler was ever busy),
\* the crop's quantity is max(0, quantity when the request arrived - the
\* interest's quantity).
C5_AcceptLowersStock ==
  (Accepted(1) /\ (\A q \in Handlers \ {1} : h[q].pc = "idle")
     /\ throws = 0 /\ interests[h[1].id].exists
     /\ crops[interests[h[1].id].cropId].exists)
  => crops[interests[h[1].id].cropId].quantity
       = Max(0, h[1].qty0 - interests[h[1].id].quantity)

\* C6: in index.js, after two PATCHes that set `accepted` on two different
\* interests of one crop were handled at the same time, both met the same
\* quantity and both were answered 200, the crop's quantity is
\* max(0, that quantity - the first interest's - the second interest's).
C6_NoLostDecrement ==
  \A p, q \in Handlers :
    (/\ server = "index" /\ p # q /\ Accepted(p) /\ Accepted(q)
     /\ h[p].id # h[q].id /\ h[p].qty0 = h[q].qty0
     /\ interests[h[p].id].exists /\ interests[h[q].id].exists
     /\ interests[h[p].id].cropId = interests[h[q].id].cropId
     /\ crops[interests[h[p].id].cropId].exists)
    => crops[interests[h[p].id].cropId].quantity
         = Max(0, h[p].qty0 - interests[h[p].id].quantity
                            - interests[h[q].id].quantity)

\* C7: a POST /interest gets past its checks, to its first write, only with
\* a quantity >= 1 that does not exceed the crop's quantity at that moment.
C7_QuantityChecked ==
  [][\A p \in Handlers :
       (h[p].pc = "create_findCrop" /\ h'[p].pc = "create_push")
       => (h[p].qty >= 1 /\ h[p].qty <= crops[h[p].cropId].quantity)]_vars

\* C8: in every reachable state a buyer has at most one pending interest in
\* a crop.
C8_OnePendingPerBuyer ==
  \A b \in Emails, c \in CropIds :
    Cardinality({i \in InterestIds :
                   /\ interests[i].exists /\ interests[i].status = "pending"
                   /\ interests[i].buyerEmail = b /\ interests[i].cropId = c}) <= 1

\* C9: no POST /interest of the crop's owner gets past its checks, and no
\* stored interest or summary has the crop's owner as its buyer.
C9_OwnerNeverBuyer ==
  /\ \A p \in Handlers :
       h[p].pc \in {"create_push", "create_insert"} => h[p].email # h[p].seller
  /\ \A i \in InterestIds :
       interests[i].exists => interests[i].sellerEmail # interests[i].buyerEmail
  /\ \A c \in CropIds : \A k \in 1..Len(crops[c].interests) :
       crops[c].interests[k].email # crops[c].userEmail

\* C9 witness: a POST /interest was answered 403, the answer both builds
\* give only to the crop's owner, and nothing was stored for it.
C9_Witness ==
  \E p \in Handlers :
    /\ h[p].op = "create" /\ h[p].pc = "done" /\ h[p].res = 403
    /\ \A i \in InterestIds : ~interests[i].exists
    /\ \A c \in CropIds : crops[c].interests = <<>>

\* C10: a PATCH handler that is about to write the status was sent by the
\* seller of the interest.
C10_OnlySellerDecides ==
  \A p \in Handlers :
    (h[p].pc = "patch_updateInterest" /\ interests[h[p].id].exists)
    => h[p].email = interests[h[p].id].sellerEmail

\* handler p takes a step of its own (an await returns, or it answers)
Steps(p) == h'[p] # h[p] /\ Running(p)

\* handler p answers `code` in this step
Answers(p, code) == Running(p) /\ h'[p].pc = "done" /\ h'[p].res = code

\* interest i is in neither store
Gone(i) ==
  /\ ~interests[i].exists
  /\ \A c \in CropIds : SummariesOf(crops[c], i) = {}

\* C11: when DELETE /allcrops/:id answers 200, the crop is not in allcrops
\* and no canonical interest with that cropId is in interests.
C11_CropDeletedWithInterests ==
  [][\A p \in Handlers :
       (h[p].op = "deleteCrop" /\ Answers(p, 200))
       => /\ ~crops'[h[p].cropId].exists
          /\ \A i \in InterestIds :
               ~(interests'[i].exists /\ interests'[i].cropId = h[p].cropId)]_vars

\* C12: a DELETE /interest/:id whose email is the buyerEmail of the interest
\* goes on to delete whatever the interest's status is, and in every state in
\* which it has answered 200 neither the canonical interest nor a summary with
\* that id is in any store.
C12_BuyerDeletesBoth ==
  [][\A p \in Handlers :
       /\ (/\ h[p].pc = "delete_findInterest" /\ Steps(p) /\ throws' = throws
           /\ interests[h[p].id].exists
           /\ interests[h[p].id].buyerEmail = h[p].email)
          => h'[p].pc = "delete_deleteInterest"
       /\ (h'[p].op = "deleteInterest" /\ h'[p].pc = "done" /\ h'[p].res = 200)
          => (~interests'[h'[p].id].exists
              /\ \A c \in CropIds : SummariesOf(crops'[c], h'[p].id) = {})]_vars

\* C12 witness: the buyer's DELETE of an accepted interest was answered 200
\* and the interest is in neither store.
C12_Witness ==
  \E p \in Handlers :
    /\ h[p].op = "deleteInterest" /\ h[p].pc = "done" /\ h[p].res = 200
    /\ h[p].status = "accepted"
    /\ Gone(h[p].id)

\* C13: a DELETE /interest/:id whose email differs from the buyerEmail of the
\* interest is answered 403 in the step that reads the interest, that step
\* changes neither store, and no handler gets to the deletion of an interest
\* with an email that is not its buyerEmail.
C13_OnlyBuyerDeletes ==
  [][\A p \in Handlers :
       /\ (/\ h[p].pc = "delete_findInterest" /\ Steps(p) /\ throws' = throws
           /\ interests[h[p].id].exists
           /\ interests[h[p].id].buyerEmail # h[p].email)
          => (/\ h'[p].pc = "done" /\ h'[p].res = 403
              /\ interests' = interests /\ crops' = crops)
       /\ (h'[p].pc = "delete_deleteInterest" /\ interests'[h'[p].id].exists)
          => interests'[h'[p].id].buyerEmail = h'[p].email]_vars

\* C13 witness: a DELETE /interest/:id was answered 403 and the interest is
\* still in interests, with its one summary in its crop.
C13_Witness ==
  \E p \in Handlers :
    /\ h[p].op = "deleteInterest" /\ h[p].pc = "done" /\ h[p].res = 403
    /\ interests[h[p].id].exists
    /\ Cardinality(SummariesOf(crops[interests[h[p].id].cropId], h[p].id)) = 1

\* C14: a DELETE /allcrops/:id whose email differs from the userEmail of the
\* crop is answered 403 in the step that reads the crop, that step changes
\* neither store, and no handler gets to the deletion of a crop with an email
\* that is not the crop's userEmail.
C14_OnlyOwnerDeletesCrop ==
  [][\A p \in Handlers :
       /\ (/\ h[p].pc = "dropCrop_findCrop" /\ Steps(p) /\ throws' = throws
           /\ crops[h[p].cropId].exists
           /\ crops[h[p].cropId].userEmail # h[p].email)
          => (/\ h'[p].pc = "done" /\ h'[p].res = 403
              /\ interests' = interests /\ crops' = crops)
       /\ (h'[p].pc = "dropCrop_deleteOne" /\ crops'[h'[p].cropId].exists)
          => crops'[h'[p].cropId].userEmail = h'[p].email]_vars

\* C14 witness: a DELETE /allcrops/:id was answered 403 and the crop, its
\* summary and the canonical interest are all still there.
C14_Witness ==
  \E p \in Handlers :
    /\ h[p].op = "deleteCrop" /\ h[p].pc = "done" /\ h[p].res = 403
    /\ \A c \in CropIds : crops[c].exists /\ Len(crops[c].interests) = 1
    /\ interests[1].exists

\* C15: a handler writes the crop's embedded interests only after its write
\* to the collection interests: POST /interest pushes the summary when its
\* canonical interest is stored, DELETE /interest/:id pulls the summary when
\* the canonical interest is deleted.
C15_CanonicalWrittenFirst ==
  [][\A p \in Handlers :
       /\ (h[p].pc = "create_push" /\ h'[p].pc = "create_insert")
          => interests[h[p].id].exists
       /\ (h[p].pc = "delete_pull" /\ Answers(p, 200))
          => ~interests[h[p].id].exists]_vars

\* C16: a PATCH /interests/:id handled alone (only the first handler was ever
\* busy) for an interest whose crop is not in allcrops does not get past the
\* write of the status, and is answered 404 (500 when a call rejected).
C16_NoCropNoWrite ==
  (/\ h[1].op = "patch" /\ h[1].status \in Statuses
   /\ \A q \in Handlers \ {1} : h[q].pc = "idle"
   /\ interests[h[1].id].exists
   /\ ~crops[interests[h[1].id].cropId].exists)
  => /\ h[1].pc \notin {"patch_updateSummary", "patch_setQuantity", "patch_refind"}
     /\ h[1].pc = "done" => h[1].res \in {404, 500}

\* C17: in index.js, when insertOne stores a canonical interest while its crop
\* exists, the interest's quantity is at most the crop's quantity at that step.
C17_QuantityValidAtCommit ==
  [][\A i \in InterestIds :
       (/\ server = "index"
        /\ ~interests[i].exists /\ interests'[i].exists
        /\ crops[interests'[i].cropId].exists)
       => interests'[i].quantity <= crops[interests'[i].cropId].quantity]_vars

\* C18: no step of a DELETE /interest/:id handler changes the quantity of a
\* crop or removes a crop.
C18_DeleteKeepsQuantity ==
  [][\A p \in Handlers :
       (h[p].op = "deleteInterest" /\ Steps(p))
       => \A c \in CropIds :
            /\ crops'[c].exists = crops[c].exists
            /\ crops'[c].quantity = crops[c].quantity]_vars

\* C18 witness: in index.js the buyer's DELETE of an accepted interest was
\* answered 200, the interest is in neither store, and the crop's quantity is
\* still below the quantity it was listed with.
C18_Witness ==
  \E p \in Handlers :
    /\ server = "index"
    /\ h[p].op = "deleteInterest" /\ h[p].pc = "done" /\ h[p].res = 200
    /\ h[p].status = "accepted"
    /\ Gone(h[p].id)
    /\ \A c \in CropIds : crops[c].exists /\ crops[c].quantity < ListedCrop.quantity

\* C19: no step of a POST /interest handler changes a crop's quantity; its
\* $push step changes nothing but the crop's interests, to which it appends
\* one pending summary of the request at the end; the step that answers 200
\* changes nothing but interests, where it adds one pending document of the
\* request under a new id, and the crop, when it is still there, then holds
\* exactly one summary with that id; its other steps write nothing.
C19_CreateOnlyAdds ==
  [][\A p \in Handlers :
       (h[p].op = "create" /\ Steps(p)) =>
         LET c == h[p].cropId
             i == h[p].id
         IN /\ \A d \in CropIds : /\ crops'[d].exists = crops[d].exists
                                  /\ crops'[d].quantity = crops[d].quantity
            /\ IF h[p].pc = "create_push" /\ throws' = throws
               THEN /\ interests' = interests
                    /\ crops[c].exists =>
                         crops' = [crops EXCEPT ![c].interests =
                                     crops[c].interests \o
                                       <<[id |-> i, email |-> h[p].email,
                                          quantity |-> h[p].qty, status |-> "pending"]>>]
               ELSE IF Answers(p, 200)
               THEN /\ crops' = crops
                    /\ ~interests[i].exists
                    /\ interests'[i].exists
                    /\ interests'[i].status = "pending"
                    /\ interests'[i].cropId = c
                    /\ interests'[i].buyerEmail = h[p].email
                    /\ interests'[i].quantity = h[p].qty
                    /\ \A j \in InterestIds \ {i} : interests'[j] = interests[j]
                    /\ crops[c].exists => Cardinality(SummariesOf(crops[c], i)) = 1
               ELSE crops' = crops /\ interests' = interests]_vars

\* C19 witness: the only request so far, a POST /interest, was answered 200:
\* its pending interest is stored, its summary is the last one of the crop,
\* and the crop's quantity is the quantity it was listed with.
C19_Witness ==
  \E p \in Handlers :
    /\ requests = 1
    /\ h[p].op = "create" /\ h[p].pc = "done" /\ h[p].res = 200
    /\ interests[h[p].id].exists /\ interests[h[p].id].status = "pending"
    /\ LET c == crops[interests[h[p].id].cropId]
       IN /\ c.exists /\ c.quantity = ListedCrop.quantity
          /\ Len(c.interests) > 0
          /\ c.interests[Len(c.interests)].id = h[p].id

\* C20: in part_000, when a DELETE /allcrops/:id and a POST /interest have
\* both been answered 200 and no call has rejected, interests holds no
\* document whose crop is not in allcrops.
C20_NoOrphanAfterRace ==
  (/\ server = "part_000" /\ throws = 0
   /\ \E p, q \in Handlers :
        /\ h[p].op = "deleteCrop" /\ h[p].pc = "done" /\ h[p].res = 200
        /\ h[q].op = "create" /\ h[q].pc = "done" /\ h[q].res = 200)
  => \A i \in InterestIds :
       interests[i].exists => crops[interests[i].cropId].exists

\* the summaries of a crop document other than those of interest i
OtherSummaries(c, i) == SelectSeq(c.interests, LAMBDA s : s.id # i)

\* index.js has answered an accepting PATCH that was handled alone (only the
\* first handler was ever busy, no call rejected) and that met a crop with
\* less left than its interest asks for
OverCommitted ==
  /\ server = "index" /\ throws = 0
  /\ h[1].op = "patch" /\ h[1].pc = "done" /\ h[1].status = "accepted"
  /\ \A q \in Handlers \ {1} : h[q].pc = "idle"
  /\ interests[h[1].id].exists
  /\ crops[interests[h[1].id].cropId].exists
  /\ h[1].qty0 < interests[h[1].id].quantity

\* the answer is 200, the interest is accepted and its crop has nothing left
OverCommitAccepted ==
  /\ h[1].res = 200
  /\ interests[h[1].id].status = "accepted"
  /\ crops[interests[h[1].id].cropId].quantity = 0

\* C21: in index.js, an accepting PATCH handled alone for an interest that
\* asks for more than its crop has left is answered 200, leaves the interest
\* accepted and the crop's quantity 0; and no step of a PATCH handler changes
\* another interest or another interest's summary.
C21_OverCommitSucceeds ==
  [][/\ (OverCommitted => OverCommitAccepted)'
     /\ \A p \in Handlers :
          (h[p].op = "patch" /\ Steps(p))
          => /\ \A i \in InterestIds \ {h[p].id} : interests'[i] = interests[i]
             /\ \A c \in CropIds :
                  OtherSummaries(crops'[c], h[p].id) = OtherSummaries(crops[c], h[p].id)]_vars

\* C21 witness: in index.js, after a POST /interest of a second buyer, the
\* accept of the first interest (which took the whole stock) and the accept
\* of the second, handled one after the other, the second accept has met a
\* stock of 0, was answered 200, both interests are accepted and the crop's
\* quantity is 0.
C21_Witness ==
  /\ OverCommitted /\ OverCommitAccepted
  /\ requests = 3 /\ h[1].id = 2 /\ h[1].qty0 = 0
  /\ interests[1].exists /\ interests[1].status = "accepted"

\* sum of the quantities of the stored interests in S
RECURSIVE SumQuantity(_)
SumQuantity(S) ==
  IF S = {} THEN 0
  ELSE LET i == CHOOSE j \in S : TRUE
       IN interests[i].quantity + SumQuantity(S \ {i})

\* C22: as long as no interest has been deleted, a crop's quantity is below
\* the quantity it was listed with by at most the sum of the quantities of
\* its interests (each interest is taken off the stock at most once).
C22_DecrementedOncePerInterest ==
  \A c \in CropIds :
    (crops[c].exists /\ \A i \in 1..(nextId - 1) : interests[i].exists)
    => ListedCrop.quantity - crops[c].quantity
         <= SumQuantity({i \in 1..(nextId - 1) : interests[i].cropId = c})

\* C23: in index.js, a POST /interest whose read of the crop finds a summary
\* of the same buyer, whatever its status, is answered 400 and writes
\* nothing; a POST /interest gets past its checks only when the crop holds no
\* summary of the buyer.
C23_AnyStatusBlocks ==
  [][\A p \in Handlers :
       (/\ server = "index" /\ h[p].pc = "create_findCrop" /\ Steps(p)
        /\ throws' = throws /\ crops[h[p].cropId].exists)
       => LET c == crops[h[p].cropId]
              mine == {k \in 1..Len(c.interests) : c.interests[k].email = h[p].email}
          IN /\ (mine # {} /\ h[p].email # c.userEmail /\ h[p].qty <= c.quantity)
                => (/\ h'[p].pc = "done" /\ h'[p].res = 400
                    /\ crops' = crops /\ interests' = interests /\ nextId' = nextId)
             /\ h'[p].pc = "create_push" => mine = {}]_vars

\* C23 witness: in index.js the first interest of buyerB was decided, buyerB's
\* DELETE of it was answered 200, and afterwards buyerB's new POST /interest
\* on the same crop was answered 200 and is stored.
C23_Witness ==
  \E p, q \in Handlers :
    /\ server = "index" /\ throws = 0
    /\ h[q].op = "deleteInterest" /\ h[q].pc = "done" /\ h[q].res = 200
    /\ h[q].id = 1 /\ h[q].status \in {"accepted", "rejected"}
    /\ Gone(1)
    /\ h[p].op = "create" /\ h[p].pc = "done" /\ h[p].res = 200
    /\ interests[h[p].id].exists
    /\ interests[h[p].id].buyerEmail = EarlierInterest.buyerEmail
    /\ interests[h[p].id].cropId = EarlierInterest.cropId
    /\ crops[EarlierInterest.cropId].exists

====
